---- MODULE Spec2Model ----
(***************************************************************************)
(* Thread-Metric porting layer for RT-Thread.                              *)
(*                                                                         *)
(* The model follows src/unnamed/part_000 (dynamic threads, SVC_Handler,   *)
(* tm_thread_detach) and records, in the variable variant, where the       *)
(* second porting layer src/src/tm_porting_layer_rtthread.c differs:       *)
(* static threads, tm_thread_suspend without rt_schedule, a semaphore get  *)
(* that never waits and a trigger that always raises SVC #255.             *)
(*                                                                         *)
(* The RT-Thread kernel calls (threads, semaphores, queues, pools) are     *)
(* modelled at the places the porting layer calls them, as RT-Thread 5.1   *)
(* and later behave on a single 32-bit Cortex-M core (the SVC/PSP code of  *)
(* SVC_Handler): rt_thread_resume schedules, rt_thread_suspend does not,   *)
(* rt_mq_recv returns the number of bytes received.                        *)
(***************************************************************************)
EXTENDS Integers, Sequences, FiniteSets, TLC

VARIABLES
    variant,      \* which porting layer file is built
    fault,        \* "none", or the undefined behaviour the program has run into
    test_thread,  \* the thread table: "RT_NULL", "obj", or "deleted" (the
                  \* handle of a thread that rt_thread_delete has destroyed)
    thr,          \* the kernel's thread objects: stat ("none", "suspend",
                  \* "ready", "running", "close"), prio, ran, resumed
    rdy,          \* the kernel's ready list, head first
    current,      \* the running thread (rt_thread_self)
    pend,         \* per thread: the adapter call it is inside of, if any
    isr,          \* "thread" or "svc": the exception level the core runs at
    svc_number,   \* the immediate of the SVC instruction being served
    trap_flag,    \* the harness's selector, read by tm_cause_interrupt
    nirq,         \* calls of tm_interrupt_handler
    npre,         \* calls of tm_interrupt_preemption_handler
    sems,         \* test_sem and the semaphore objects: obj, value, wait, hist
    queues,       \* test_msgq: init, flag, max_msgs, msgs
    msg_in,       \* the sender's 16-byte buffer (message_ptr of send)
    msg_out,      \* the receiver's 16-byte buffer (message_ptr of receive)
    sent,         \* per queue: the envelopes sent and not yet received, in
                  \* the order of the sends that returned TM_SUCCESS
    pools,        \* test_slab: init, total, free (the free list, head first)
    held,         \* the block pointers the harness holds
    ptr_out,      \* *memory_ptr of the last allocate
    nfree,        \* calls of tm_memory_pool_deallocate
    last          \* the last adapter call and what it returned

thread_vars == <<test_thread, thr, rdy, current, pend>>

irq_vars == <<isr, svc_number, trap_flag, nirq, npre>>

queue_vars == <<queues, msg_in, msg_out, sent>>

pool_vars == <<pools, held, ptr_out, nfree>>

vars == <<variant, fault, thread_vars, irq_vars, sems, queue_vars, pool_vars,
          last>>

----------------------------------------------------------------------------
(* Program constants *)

TM_TEST_NUM_THREADS == 10

\* test_msgq_buffer[..][8][16]: 8 slots of 16 bytes
QueueSlots == 8

MessageSize == 16

\* test_slab_buffer[..][8 * 128]: 8 blocks of 128 bytes
SlabBlocks == 8

BlockSize == 128

\* priorities run from 0 to RT_THREAD_PRIORITY_MAX - 1 = 31
RT_THREAD_PRIORITY_MAX == 32

\* thread_metric sets the calling shell thread to priority 10
ShellPriority == 10

\* a pointer, and an unsigned long, of the 32-bit core SVC_Handler is written for
PointerSize == 4

\* the largest value of a semaphore (rt_uint16_t)
RT_SEM_VALUE_MAX == 65535

\* the kernel's error codes, returned negated
RT_EOK == 0

RT_ERROR == 1

RT_ETIMEOUT == 2

RT_EFULL == 3

RT_EINTR == 9

TM_SUCCESS == "TM_SUCCESS"

TM_ERROR == "TM_ERROR"

\* the call has not returned (the caller is blocked, preempted or lost)
NoReturn == "NONE"

(* Bounds of the model *)

\* interrupts raised in one run
MaxInterrupts == 2

\* the values of a semaphore the model follows one call at a time: those
\* within MaxSemValue of either end of its range
MaxSemValue == 2

\* calls of tm_memory_pool_deallocate in one run
MaxFrees == 3

\* the thread slots the harness uses
ThreadIds == {0, 1}

\* an id past the end of the table
BadThreadId == TM_TEST_NUM_THREADS

\* the thread handles: the table's threads, the shell thread and the idle thread
Shell == TM_TEST_NUM_THREADS + 1

Idle == TM_TEST_NUM_THREADS + 2

Handles == ThreadIds \cup {Shell, Idle}

\* priorities the harness passes: above, equal to and below the shell's, and 0
Priorities == {0, 5, ShellPriority, 15}

\* selectors the harness stores in trap_flag
TrapFlags == {0, 254, 255, 511}

\* the slots of the other tables the harness uses
SemIds == {0}

QueueIds == {0, 1}

PoolIds == {0, 1}

\* 16-byte envelopes, as four unsigned longs
Envelopes == {<<1, 2, 3, 4>>, <<1, 2, 3, 5>>}

ZeroEnvelope == <<0, 0, 0, 0>>

Variants == {"part_000", "porting_layer"}

NoThread == [stat |-> "none", prio |-> 0, ran |-> FALSE, resumed |-> FALSE]

NoCall == [k |-> "none", id |-> 0, err |-> RT_EOK]

NullPtr == <<-1, -1>>

----------------------------------------------------------------------------
(* The kernel's scheduler, on the record k of the kernel's state *)

Remove(seq, h) == SelectSeq(seq, LAMBDA x : x # h)

\* the first thread of the ready list among those of the best priority
Highest(k) ==
    LET ps == {k.thr[k.rdy[i]].prio : i \in 1..Len(k.rdy)}
        best == CHOOSE p \in ps : \A q \in ps : p <= q
        i == CHOOSE n \in 1..Len(k.rdy) :
                 /\ k.thr[k.rdy[n]].prio = best
                 /\ \A j \in 1..(n - 1) : k.thr[k.rdy[j]].prio # best
    IN  k.rdy[i]

\* rt_schedule: switch to the highest ready thread when it beats the running
\* one, or when the current thread is no longer running
rt_schedule(k) ==
    IF k.rdy = <<>> THEN k
    ELSE
      LET to == Highest(k)
          from == k.cur
          running == k.thr[from].stat = "running"
      IN  IF running /\ ~(k.thr[to].prio < k.thr[from].prio) THEN k
          ELSE IF to = from
          THEN [k EXCEPT !.thr[to].stat = "running", !.rdy = Remove(k.rdy, to)]
          ELSE [k EXCEPT
                   !.cur = to,
                   !.thr = [k.thr EXCEPT
                              ![to] = [@ EXCEPT !.stat = "running", !.ran = TRUE],
                              ![from] = [@ EXCEPT !.stat =
                                            IF running THEN "ready" ELSE @]],
                   !.rdy = (IF running THEN <<from>> ELSE <<>>)
                               \o Remove(k.rdy, to)]

\* a resume that leaves the switch to the next scheduling point
rt_thread_resume_unscheduled(k, h) ==
    IF k.thr[h].stat # "suspend" THEN [k |-> k, err |-> -RT_ERROR]
    ELSE [k |-> [k EXCEPT !.thr[h].stat = "ready", !.rdy = <<h>> \o k.rdy],
          err |-> RT_EOK]

\* a resume that works once: it refuses a thread that has run before
rt_thread_resume_once(k, h) ==
    IF k.thr[h].stat # "suspend" \/ k.thr[h].ran
    THEN [k |-> k, err |-> -RT_ERROR]
    ELSE [k |-> rt_schedule(
                  [k EXCEPT !.thr[h].stat = "ready",
                            !.rdy = <<h>> \o k.rdy,
                            !.sems = [s \in DOMAIN k.sems |->
                                [k.sems[s] EXCEPT !.wait = Remove(@, h)]]]),
          err |-> RT_EOK]

\* rt_thread_resume: a suspended thread leaves the list it waits on, becomes
\* ready, and the kernel schedules
rt_thread_resume(k, h) ==
    IF k.thr[h].stat # "suspend" THEN [k |-> k, err |-> -RT_ERROR]
    ELSE [k |-> rt_schedule(
                  [k EXCEPT !.thr[h].stat = "ready",
                            !.rdy = <<h>> \o k.rdy,
                            !.sems = [s \in DOMAIN k.sems |->
                                [k.sems[s] EXCEPT !.wait = Remove(@, h)]]]),
          err |-> RT_EOK]

\* a suspend that accepts a thread that is suspended already
rt_thread_suspend_idempotent(k, h) ==
    IF k.thr[h].stat = "suspend" THEN [k |-> k, err |-> RT_EOK]
    ELSE IF k.thr[h].stat \notin {"ready", "running"}
    THEN [k |-> k, err |-> -RT_ERROR]
    ELSE [k |-> [k EXCEPT !.thr[h].stat = "suspend", !.rdy = Remove(k.rdy, h)],
          err |-> RT_EOK]

\* rt_thread_suspend: a ready or running thread leaves the ready list; the
\* kernel does not schedule
rt_thread_suspend(k, h) ==
    IF k.thr[h].stat \notin {"ready", "running"}
    THEN [k |-> k, err |-> -RT_ERROR]
    ELSE [k |-> [k EXCEPT !.thr[h].stat = "suspend", !.rdy = Remove(k.rdy, h)],
          err |-> RT_EOK]

\* rt_thread_delete: the thread leaves the ready list or the list it waits
\* on and is closed; its memory goes back to the heap later
rt_thread_delete(k, h) ==
    [k EXCEPT !.thr[h].stat = "close",
              !.rdy = Remove(k.rdy, h),
              !.sems = [s \in DOMAIN k.sems |->
                          [k.sems[s] EXCEPT !.wait = Remove(@, h)]]]

\* rt_thread_startup: the new thread is put in the suspended state, resumed,
\* and the kernel schedules
rt_thread_startup(k, h, priority) ==
    rt_thread_resume(
        [k EXCEPT !.thr[h] = [stat |-> "suspend", prio |-> priority,
                              ran |-> FALSE, resumed |-> FALSE]], h).k

\* (result == RT_EOK) ? TM_SUCCESS : TM_ERROR
Status(result) == IF result = RT_EOK THEN TM_SUCCESS ELSE TM_ERROR

----------------------------------------------------------------------------
(* The state *)

K == [thr |-> thr, rdy |-> rdy, cur |-> current, pend |-> pend, sems |-> sems]

Install(k) ==
    /\ thr' = k.thr
    /\ rdy' = k.rdy
    /\ current' = k.cur
    /\ pend' = k.pend
    /\ sems' = k.sems

Init ==
    /\ variant \in Variants
    /\ fault = "none"
    /\ test_thread = [i \in ThreadIds |-> "RT_NULL"]
    /\ thr = [h \in Handles |->
                IF h = Shell
                THEN [stat |-> "running", prio |-> ShellPriority,
                      ran |-> TRUE, resumed |-> TRUE]
                ELSE IF h = Idle
                THEN [stat |-> "ready", prio |-> RT_THREAD_PRIORITY_MAX - 1,
                      ran |-> TRUE, resumed |-> TRUE]
                ELSE NoThread]
    /\ rdy = <<Idle>>
    /\ current = Shell
    /\ pend = [h \in Handles |-> NoCall]
    /\ isr = "thread"
    /\ svc_number = 0
    /\ trap_flag = 0
    /\ nirq = 0
    /\ npre = 0
    /\ sems = [s \in SemIds |->
                 [obj |-> "RT_NULL", value |-> 0, wait |-> <<>>, hist |-> "none"]]
    /\ queues = [q \in QueueIds |->
                   [init |-> FALSE, flag |-> "none", max_msgs |-> 0, msgs |-> <<>>]]
    /\ msg_in = ZeroEnvelope
    /\ msg_out = ZeroEnvelope
    /\ sent = [q \in QueueIds |-> <<>>]
    /\ pools = [p \in PoolIds |-> [init |-> FALSE, total |-> 0, free |-> <<>>]]
    /\ held = {}
    /\ ptr_out = NullPtr
    /\ nfree = 0
    /\ last = [op |-> "none", id |-> 0, ret |-> NoReturn, by |-> Shell]

\* a thread may start an adapter call: the core runs thread code, the running
\* thread is inside no call, and the program has not run into undefined behaviour
CanCall ==
    /\ fault = "none"
    /\ isr = "thread"
    /\ pend[current].k = "none"
    /\ current # Idle

Call(op, id, ret) == [op |-> op, id |-> id, ret |-> ret, by |-> current]

----------------------------------------------------------------------------
(* Thread lifecycle adapter *)

\* rt_thread_create gives a thread or RT_NULL; rt_thread_init always gives RT_EOK
CreateOutcomes == IF variant = "part_000" THEN {TRUE, FALSE} ELSE {TRUE}

tm_thread_create(id, priority) ==
    /\ CanCall
    /\ \E ok \in CreateOutcomes :
        IF id \notin 0..(TM_TEST_NUM_THREADS - 1)
        THEN \* the store to test_thread[thread_id] is outside the table
             /\ fault' = "oob"
             /\ last' = Call("thread_create", id, NoReturn)
             /\ UNCHANGED <<thread_vars, sems>>
        ELSE /\ thr[id].stat = "none"
             /\ IF ~ok
                THEN /\ test_thread' = [test_thread EXCEPT ![id] = "RT_NULL"]
                     /\ last' = Call("thread_create", id, TM_ERROR)
                     /\ UNCHANGED <<thr, rdy, current, pend, sems>>
                ELSE LET k1 == rt_thread_startup(K, id, priority)
                     IN  /\ test_thread' = [test_thread EXCEPT ![id] = "obj"]
                         /\ IF k1.cur # current
                            THEN \* the new thread preempted the caller in
                                 \* rt_thread_startup
                                 /\ Install([k1 EXCEPT !.pend[current] =
                                        [k |-> "create", id |-> id, err |-> RT_EOK]])
                                 /\ last' = Call("thread_create", id, NoReturn)
                            ELSE /\ Install(rt_thread_suspend(k1, id).k)
                                 /\ last' = Call("thread_create", id, TM_SUCCESS)
             /\ UNCHANGED fault
    /\ UNCHANGED <<variant, irq_vars, queue_vars, pool_vars>>

\* the rest of a call the running thread was switched out of
Continue ==
    /\ fault = "none"
    /\ isr = "thread"
    /\ pend[current].k # "none"
    /\ LET c == pend[current]
           k0 == [K EXCEPT !.pend[current] = NoCall]
       IN  CASE c.k = "create" ->
                  /\ Install(rt_thread_suspend(k0, c.id).k)
                  /\ last' = Call("thread_create", c.id, TM_SUCCESS)
             [] c.k = "suspend" ->
                  /\ Install(k0)
                  /\ last' = Call("thread_suspend", c.id, Status(c.err))
             [] OTHER ->
                  /\ Install(k0)
                  /\ last' = Call("semaphore_get", c.id, Status(c.err))
    /\ UNCHANGED <<variant, fault, test_thread, irq_vars, queue_vars, pool_vars>>

\* what a kernel call through test_thread[id] may run into: a null pointer
\* where no thread was created (part_000 keeps pointers, the second porting
\* layer keeps the thread objects themselves), and the memory of a deleted
\* thread, which is freed and reused at a time the caller does not control
HandleFaults(id) ==
    IF test_thread[id] = "RT_NULL" /\ variant = "part_000" THEN {"null"}
    ELSE IF test_thread[id] = "deleted" THEN {"none", "dangling"}
    ELSE {"none"}

tm_thread_resume(id) ==
    /\ CanCall
    /\ \E f \in HandleFaults(id) :
       IF f # "none"
       THEN \* rt_thread_resume(RT_NULL), or of freed memory
            /\ fault' = f
            /\ last' = Call("thread_resume", id, NoReturn)
            /\ UNCHANGED <<thr, rdy, current, pend, sems>>
       ELSE LET r == rt_thread_resume([K EXCEPT !.thr[id].resumed = TRUE], id)
            IN  /\ Install(r.k)
                /\ last' = Call("thread_resume", id, Status(r.err))
                /\ UNCHANGED fault
    /\ UNCHANGED <<variant, test_thread, irq_vars, queue_vars, pool_vars>>

tm_thread_suspend(id) ==
    /\ CanCall
    /\ \E f \in HandleFaults(id) :
       IF f # "none"
       THEN \* rt_thread_suspend(RT_NULL), or of freed memory
            /\ fault' = f
            /\ last' = Call("thread_suspend", id, NoReturn)
            /\ UNCHANGED <<thr, rdy, current, pend, sems>>
       ELSE LET r == rt_thread_suspend(K, id)
                k1 == IF variant = "part_000" THEN rt_schedule(r.k) ELSE r.k
            IN  /\ IF k1.cur # current
                   THEN /\ Install([k1 EXCEPT !.pend[current] =
                                [k |-> "suspend", id |-> id, err |-> r.err]])
                        /\ last' = Call("thread_suspend", id, NoReturn)
                   ELSE /\ Install(k1)
                        /\ last' = Call("thread_suspend", id, Status(r.err))
                /\ UNCHANGED fault
    /\ UNCHANGED <<variant, test_thread, irq_vars, queue_vars, pool_vars>>

\* the slots whose handle is not a live thread: (test_thread[i])->stack_addr
\* reads through a null pointer or through freed memory
BadSlots ==
    {i \in 0..(TM_TEST_NUM_THREADS - 1) :
        i \notin ThreadIds \/ test_thread[i] # "obj"}

\* the loop of tm_thread_detach over the slots below n
RECURSIVE DetachSlots(_, _)
DetachSlots(k, n) ==
    IF n = 0 THEN k
    ELSE LET k1 == DetachSlots(k, n - 1)
             i == n - 1
         IN  IF i \in ThreadIds /\ test_thread[i] = "obj"
             THEN rt_thread_delete(k1, i)
             ELSE k1

\* tm_thread_detach (part_000 only), called by the harness from the shell
\* thread at the end of a test. The read through a slot that holds no live
\* thread is undefined: it either yields NULL, and the slot is skipped, or
\* the loop is lost at the first such slot.
tm_thread_detach ==
    /\ CanCall
    /\ variant = "part_000"
    /\ current = Shell
    /\ \E lost \in (IF BadSlots = {} THEN {FALSE} ELSE BOOLEAN) :
        LET first == IF BadSlots = {} THEN TM_TEST_NUM_THREADS
                     ELSE CHOOSE i \in BadSlots : \A j \in BadSlots : i <= j
            n == IF lost THEN first ELSE TM_TEST_NUM_THREADS
        IN  /\ Install(DetachSlots(K, n))
            /\ test_thread' = [i \in ThreadIds |->
                                 IF i < n /\ test_thread[i] = "obj"
                                 THEN "deleted" ELSE test_thread[i]]
            /\ fault' = IF ~lost THEN fault
                        ELSE IF first \in ThreadIds /\ test_thread[first] = "deleted"
                        THEN "dangling" ELSE "null"
            /\ last' = Call("thread_detach", 0, IF lost THEN NoReturn ELSE "void")
    /\ UNCHANGED <<variant, irq_vars, queue_vars, pool_vars>>

----------------------------------------------------------------------------
(* Interrupt simulation *)

\* a trigger that keeps the low byte of the selector
Trap_low_byte(flag) ==
    IF variant = "porting_layer" THEN 255
    ELSE IF flag % 256 = 255 THEN 255
    ELSE IF flag % 256 = 254 THEN 254
    ELSE 0

\* the SVC immediate tm_cause_interrupt raises, 0 for none
Trap(flag) ==
    IF variant = "porting_layer" THEN 255
    ELSE IF flag = 255 THEN 255
    ELSE IF flag = 254 THEN 254
    ELSE 0

tm_cause_interrupt(flag) ==
    /\ CanCall
    /\ nirq + npre < MaxInterrupts
    /\ trap_flag' = flag
    /\ IF Trap(flag) # 0
       THEN isr' = "svc" /\ svc_number' = Trap(flag)
       ELSE UNCHANGED <<isr, svc_number>>
    /\ last' = Call("cause_interrupt", flag,
                    IF Trap(flag) # 0 THEN NoReturn ELSE "void")
    /\ UNCHANGED <<variant, fault, thread_vars, nirq, npre, sems, queue_vars,
                   pool_vars>>

\* a dispatcher with the two cases exchanged
Dispatch_exchanged(n) ==
    IF n = 255 THEN "plain"
    ELSE IF n = 254 THEN "preemption"
    ELSE "none"

\* the handler SVC_Handler calls for an SVC immediate
Dispatch(n) ==
    IF n = 255 THEN "preemption"
    ELSE IF n = 254 THEN "plain"
    ELSE "none"

\* the threads the preemption handler may resume
LiveIds == {i \in ThreadIds : thr[i].stat \notin {"none", "close"}}

\* tm_interrupt_preemption_handler: counts and resumes a thread
tm_interrupt_preemption_handler ==
    /\ npre' = npre + 1
    /\ nirq' = nirq
    /\ IF LiveIds = {} THEN UNCHANGED <<thr, rdy, current, pend, sems>>
       ELSE \E id \in LiveIds :
               Install(rt_thread_resume([K EXCEPT !.thr[id].resumed = TRUE], id).k)

\* tm_interrupt_handler: counts
tm_interrupt_handler ==
    /\ nirq' = nirq + 1
    /\ UNCHANGED <<npre, thr, rdy, current, pend, sems>>

\* the handler runs at exception level; the switch rt_schedule asked for is
\* taken when it returns
SVC_Handler ==
    /\ fault = "none"
    /\ isr = "svc"
    /\ isr' = "thread"
    /\ CASE Dispatch(svc_number) = "preemption" -> tm_interrupt_preemption_handler
         [] Dispatch(svc_number) = "plain" -> tm_interrupt_handler
         [] OTHER -> UNCHANGED <<nirq, npre, thr, rdy, current, pend, sems>>
    /\ last' = [last EXCEPT !.ret = "void"]
    /\ UNCHANGED <<variant, fault, test_thread, svc_number, trap_flag,
                   queue_vars, pool_vars>>

----------------------------------------------------------------------------
(* Synchronization adapter *)

\* RT_IPC_FLAG_PRIO: a waiter goes before the first waiter of lower priority
Enqueue(k, wait, h) ==
    LET before == SelectSeq(wait, LAMBDA x : k.thr[x].prio <= k.thr[h].prio)
        after == SelectSeq(wait, LAMBDA x : k.thr[x].prio > k.thr[h].prio)
    IN  before \o <<h>> \o after

\* the timeout tm_semaphore_get passes to rt_sem_take
SemTimeout == IF variant = "part_000" THEN "RT_WAITING_FOREVER" ELSE "RT_WAITING_NO"

\* a take that does not look at the value
rt_sem_take_unchecked(k, s, timeout) ==
    [k |-> [k EXCEPT !.sems[s].hist = IF @ = "fresh" THEN "taken" ELSE "used"],
     err |-> RT_EOK, blocked |-> FALSE]

\* rt_sem_take
rt_sem_take(k, s, timeout) ==
    IF k.sems[s].value > 0
    THEN [k |-> [k EXCEPT !.sems[s].value = @ - 1,
                          !.sems[s].hist = IF @ = "fresh" THEN "taken" ELSE "used"],
          err |-> RT_EOK, blocked |-> FALSE]
    ELSE IF timeout = "RT_WAITING_NO"
    THEN [k |-> k, err |-> -RT_ETIMEOUT, blocked |-> FALSE]
    ELSE [k |-> rt_schedule(
                  [k EXCEPT !.thr[k.cur].stat = "suspend",
                            !.sems[s].wait = Enqueue(k, @, k.cur),
                            !.pend[k.cur] = [k |-> "take", id |-> s,
                                             err |-> -RT_EINTR]]),
          err |-> -RT_EINTR, blocked |-> TRUE]

\* rt_sem_release: the first waiter is woken with RT_EOK, or the value grows
rt_sem_release(k, s) ==
    IF k.sems[s].wait # <<>>
    THEN LET h == Head(k.sems[s].wait)
         IN  [k |-> rt_thread_resume(
                      [k EXCEPT !.pend[h].err = RT_EOK,
                                !.sems[s].hist = "used"], h).k,
              err |-> RT_EOK]
    ELSE IF k.sems[s].value < RT_SEM_VALUE_MAX
    THEN [k |-> [k EXCEPT !.sems[s].value = @ + 1, !.sems[s].hist = "used"],
          err |-> RT_EOK]
    ELSE [k |-> k, err |-> -RT_EFULL]

tm_semaphore_create(s) ==
    /\ CanCall
    /\ sems[s].obj = "RT_NULL"
    /\ \E ok \in BOOLEAN :
         IF ok
         THEN /\ sems' = [sems EXCEPT ![s] = [obj |-> "obj", value |-> 1,
                                              wait |-> <<>>, hist |-> "fresh"]]
              /\ last' = Call("semaphore_create", s, TM_SUCCESS)
         ELSE /\ sems' = sems
              /\ last' = Call("semaphore_create", s, TM_ERROR)
    /\ UNCHANGED <<variant, fault, thread_vars, irq_vars, queue_vars, pool_vars>>

\* the semaphore values from which the model follows a single call down
CanCountDown(value) ==
    value <= MaxSemValue \/ value > RT_SEM_VALUE_MAX - MaxSemValue

\* the semaphore values from which the model follows a single call up
CanCountUp(value) ==
    value < MaxSemValue \/ value >= RT_SEM_VALUE_MAX - MaxSemValue

tm_semaphore_get(s) ==
    /\ CanCall
    /\ CanCountDown(sems[s].value)
    /\ IF sems[s].obj = "RT_NULL"
       THEN \* rt_sem_take(RT_NULL, ..)
            /\ fault' = "null"
            /\ last' = Call("semaphore_get", s, NoReturn)
            /\ UNCHANGED <<thr, rdy, current, pend, sems>>
       ELSE LET r == rt_sem_take(K, s, SemTimeout)
            IN  /\ Install(r.k)
                /\ last' = Call("semaphore_get", s,
                                IF r.blocked THEN NoReturn ELSE Status(r.err))
                /\ UNCHANGED fault
    /\ UNCHANGED <<variant, test_thread, irq_vars, queue_vars, pool_vars>>

tm_semaphore_put(s) ==
    /\ CanCall
    /\ sems[s].wait # <<>> \/ CanCountUp(sems[s].value)
    /\ IF sems[s].obj = "RT_NULL"
       THEN \* rt_sem_release(RT_NULL)
            /\ fault' = "null"
            /\ last' = Call("semaphore_put", s, NoReturn)
            /\ UNCHANGED <<thr, rdy, current, pend, sems>>
       ELSE LET r == rt_sem_release(K, s)
            IN  /\ Install(r.k)
                /\ last' = Call("semaphore_put", s, Status(r.err))
                /\ UNCHANGED fault
    /\ UNCHANGED <<variant, test_thread, irq_vars, queue_vars, pool_vars>>

\* n calls of rt_sem_release in a row on a semaphore nobody waits on: each
\* finds the value below RT_SEM_VALUE_MAX, adds one and returns RT_EOK
rt_sem_release_run(k, s, n) ==
    [k |-> [k EXCEPT !.sems[s].value = @ + n, !.sems[s].hist = "used"],
     err |-> RT_EOK]

\* a run of calls of tm_semaphore_put by one thread, from the value
\* MaxSemValue up to RT_SEM_VALUE_MAX - MaxSemValue
tm_semaphore_put_run(s) ==
    /\ CanCall
    /\ sems[s].obj # "RT_NULL"
    /\ sems[s].wait = <<>>
    /\ sems[s].value = MaxSemValue
    /\ LET n == RT_SEM_VALUE_MAX - 2 * MaxSemValue
           r == rt_sem_release_run(K, s, n)
       IN  /\ Install(r.k)
           /\ last' = Call("semaphore_put", s, Status(r.err))
    /\ UNCHANGED <<variant, fault, test_thread, irq_vars, queue_vars, pool_vars>>

----------------------------------------------------------------------------
(* Messaging adapter *)

\* sizeof(struct rt_mq_message): the next pointer and the length
MqHeaderSize == 2 * PointerSize

\* rt_mq_init: the pool holds pool_size / (msg_size + header) messages
MqCapacity(msg_size, pool_size) == pool_size \div (msg_size + MqHeaderSize)

\* rt_memcpy of n bytes of unsigned longs from src over dst
CopyBytes(dst, src, n) ==
    [i \in 1..Len(dst) |-> IF i * PointerSize <= n THEN src[i] ELSE dst[i]]

\* a send that puts the message at the head of the queue, as rt_mq_urgent does
rt_mq_send_urgent(mq, buffer, size) ==
    IF ~mq.init \/ size > MessageSize THEN [mq |-> mq, err |-> -RT_ERROR]
    ELSE IF Len(mq.msgs) >= mq.max_msgs THEN [mq |-> mq, err |-> -RT_EFULL]
    ELSE [mq |-> [mq EXCEPT !.msgs =
                     <<[data |-> CopyBytes(ZeroEnvelope, buffer, size),
                        length |-> size]>> \o @],
          err |-> RT_EOK]

\* rt_mq_send(mq, buffer, size): -RT_ERROR for a message larger than msg_size
\* (every message, on a queue never initialised), -RT_EFULL on a full queue
rt_mq_send(mq, buffer, size) ==
    IF ~mq.init \/ size > MessageSize THEN [mq |-> mq, err |-> -RT_ERROR]
    ELSE IF Len(mq.msgs) >= mq.max_msgs THEN [mq |-> mq, err |-> -RT_EFULL]
    ELSE [mq |-> [mq EXCEPT !.msgs = Append(@,
                     [data |-> CopyBytes(ZeroEnvelope, buffer, size),
                      length |-> size])],
          err |-> RT_EOK]

\* a receive that reports RT_EOK on an empty queue
rt_mq_recv_empty_ok(mq, buffer, size) ==
    IF mq.msgs = <<>> THEN [mq |-> mq, buffer |-> buffer, result |-> RT_EOK]
    ELSE LET m == Head(mq.msgs)
             len == IF m.length > size THEN size ELSE m.length
         IN  [mq |-> [mq EXCEPT !.msgs = Tail(@)],
              buffer |-> CopyBytes(buffer, m.data, len),
              result |-> len]

\* rt_mq_recv(mq, buffer, size, RT_WAITING_NO): the number of bytes copied, or
\* -RT_ETIMEOUT on an empty queue
rt_mq_recv(mq, buffer, size) ==
    IF mq.msgs = <<>> THEN [mq |-> mq, buffer |-> buffer, result |-> -RT_ETIMEOUT]
    ELSE LET m == Head(mq.msgs)
             len == IF m.length > size THEN size ELSE m.length
         IN  [mq |-> [mq EXCEPT !.msgs = Tail(@)],
              buffer |-> CopyBytes(buffer, m.data, len),
              result |-> len]

\* the ordering flag tm_queue_create passes to rt_mq_init; it orders the
\* threads that wait on the queue, and no call of the porting layer waits
QueueFlag ==
    IF variant = "part_000" THEN "RT_IPC_FLAG_PRIO" ELSE "RT_IPC_FLAG_FIFO"

tm_queue_create(q) ==
    /\ CanCall
    /\ queues' = [queues EXCEPT ![q] =
                    [init |-> TRUE,
                     flag |-> QueueFlag,
                     max_msgs |-> MqCapacity(MessageSize, QueueSlots * MessageSize),
                     msgs |-> <<>>]]
    /\ sent' = [sent EXCEPT ![q] = <<>>]
    /\ last' = Call("queue_create", q, TM_SUCCESS)
    /\ UNCHANGED <<variant, fault, thread_vars, irq_vars, sems, msg_in, msg_out,
                   pool_vars>>

tm_queue_send(q, message) ==
    /\ CanCall
    /\ msg_in' = message
    /\ LET r == rt_mq_send(queues[q], message, 16)
       IN  /\ queues' = [queues EXCEPT ![q] = r.mq]
           /\ last' = Call("queue_send", q, Status(r.err))
           /\ sent' = IF Status(r.err) = TM_SUCCESS
                      THEN [sent EXCEPT ![q] = Append(@, message)]
                      ELSE sent
    /\ UNCHANGED <<variant, fault, thread_vars, irq_vars, sems, msg_out, pool_vars>>

tm_queue_receive(q) ==
    /\ CanCall
    /\ LET r == rt_mq_recv(queues[q], msg_out, 16)
       IN  /\ queues' = [queues EXCEPT ![q] = r.mq]
           /\ msg_out' = r.buffer
           /\ last' = Call("queue_receive", q, Status(r.result))
           /\ sent' = IF r.result >= 0 /\ sent[q] # <<>>
                      THEN [sent EXCEPT ![q] = Tail(@)]
                      ELSE sent
    /\ UNCHANGED <<variant, fault, thread_vars, irq_vars, sems, msg_in, pool_vars>>

----------------------------------------------------------------------------
(* Memory pool adapter *)

\* rt_mp_init: each block carries a pointer in front of it
MpBlockCount(size, block_size) == size \div (block_size + PointerSize)

\* an allocation that never hands out the last free block
rt_mp_alloc_keeps_one(p) ==
    IF Len(pools[p].free) <= 1 THEN NullPtr ELSE <<p, Head(pools[p].free)>>

\* rt_mp_alloc(mp, RT_WAITING_NO): the head of the free list, or RT_NULL
rt_mp_alloc(p) ==
    IF pools[p].free = <<>> THEN NullPtr ELSE <<p, Head(pools[p].free)>>

\* a free that drops the block
rt_mp_free_dropped(ps, ptr) == ps

\* rt_mp_free: the block goes to the head of the free list of the pool its
\* header names
rt_mp_free(ps, ptr) ==
    IF ptr = NullPtr THEN ps
    ELSE [ps EXCEPT ![ptr[1]].free = <<ptr[2]>> \o @]

tm_memory_pool_create(p) ==
    /\ CanCall
    /\ ~pools[p].init
    /\ LET n == MpBlockCount(SlabBlocks * BlockSize, BlockSize)
       IN  pools' = [pools EXCEPT ![p] =
                       [init |-> TRUE, total |-> n, free |-> [i \in 1..n |-> i - 1]]]
    /\ last' = Call("memory_pool_create", p, TM_SUCCESS)
    /\ UNCHANGED <<variant, fault, thread_vars, irq_vars, sems, queue_vars,
                   held, ptr_out, nfree>>

tm_memory_pool_allocate(p) ==
    /\ CanCall
    /\ LET ptr == rt_mp_alloc(p)
       IN  /\ ptr_out' = ptr
           /\ IF ptr # NullPtr
              THEN /\ pools' = [pools EXCEPT ![p].free = Tail(@)]
                   /\ held' = held \cup {ptr}
                   /\ last' = Call("memory_pool_allocate", p, TM_SUCCESS)
              ELSE /\ UNCHANGED <<pools, held>>
                   /\ last' = Call("memory_pool_allocate", p, TM_ERROR)
    /\ UNCHANGED <<variant, fault, thread_vars, irq_vars, sems, queue_vars, nfree>>

tm_memory_pool_deallocate(p, ptr) ==
    /\ CanCall
    /\ nfree < MaxFrees
    /\ ptr \in held
    /\ pools' = rt_mp_free(pools, ptr)
    /\ held' = held \ {ptr}
    /\ nfree' = nfree + 1
    /\ last' = Call("memory_pool_deallocate", p, TM_SUCCESS)
    /\ UNCHANGED <<variant, fault, thread_vars, irq_vars, sems, queue_vars, ptr_out>>

----------------------------------------------------------------------------
(* The operations, by adapter *)

NextThread ==
    \/ \E id \in ThreadIds \cup {BadThreadId}, p \in Priorities :
           tm_thread_create(id, p)
    \/ \E id \in ThreadIds : tm_thread_resume(id)
    \/ \E id \in ThreadIds : tm_thread_suspend(id)
    \/ tm_thread_detach
    \/ Continue

NextInterrupt ==
    \/ \E f \in TrapFlags : tm_cause_interrupt(f)
    \/ SVC_Handler

NextSemaphore ==
    \/ \E s \in SemIds : tm_semaphore_create(s)
    \/ \E s \in SemIds : tm_semaphore_get(s)
    \/ \E s \in SemIds : tm_semaphore_put(s)
    \/ \E s \in SemIds : tm_semaphore_put_run(s)

NextQueue ==
    \/ \E q \in QueueIds : tm_queue_create(q)
    \/ \E q \in QueueIds, m \in Envelopes : tm_queue_send(q, m)
    \/ \E q \in QueueIds : tm_queue_receive(q)

NextPool ==
    \/ \E p \in PoolIds : tm_memory_pool_create(p)
    \/ \E p \in PoolIds : tm_memory_pool_allocate(p)
    \/ \E p \in PoolIds, ptr \in held : tm_memory_pool_deallocate(p, ptr)

Next == NextThread \/ NextInterrupt \/ NextSemaphore \/ NextQueue \/ NextPool

Spec == Init /\ [][Next]_vars

\* the thread lifecycle and the interrupt simulation
SpecThread == Init /\ [][NextThread \/ NextInterrupt]_vars

\* the threads and the semaphores they wait on
SpecSemaphore == Init /\ [][NextThread \/ NextSemaphore]_vars

SpecQueue == Init /\ [][NextQueue]_vars

SpecPool == Init /\ [][NextPool]_vars

----------------------------------------------------------------------------
(* The claims *)

ValidPriority(p) == p \in 1..(RT_THREAD_PRIORITY_MAX - 1)

\* C1: a thread created with a priority in [1,31] does not execute its entry
\* function before the first explicit tm_thread_resume of its id, and when
\* tm_thread_create has returned TM_SUCCESS the thread is suspended.
C1_NeverRunsBeforeResume ==
    /\ \A id \in ThreadIds :
          (thr[id].stat # "none" /\ ValidPriority(thr[id].prio)
              /\ ~thr[id].resumed) => ~thr[id].ran
    /\ (last.op = "thread_create" /\ last.ret = TM_SUCCESS
           /\ last.id \in ThreadIds /\ ~thr[last.id].resumed)
          => thr[last.id].stat = "suspend"

\* C2: the trigger with selector 255 enters SVC_Handler; the only step taken
\* from there is the handler's, which calls tm_interrupt_preemption_handler
\* once and returns; and a thread the handler made ready with a priority
\* higher than the interrupted thread's is the one running after the return.
C2_PreemptionOnReturn ==
    /\ []((last.op = "cause_interrupt" /\ last.ret = NoReturn
              /\ trap_flag = 255) => (isr = "svc" /\ svc_number = 255))
    /\ [][(isr = "svc" /\ svc_number = 255) =>
            /\ isr' = "thread"
            /\ npre' = npre + 1
            /\ nirq' = nirq
            /\ \A id \in ThreadIds :
                  (thr[id].stat = "suspend" /\ thr'[id].stat # "suspend"
                      /\ thr[id].prio < thr[current].prio)
                  => (current' = id /\ thr'[id].stat = "running"
                         /\ thr'[id].ran)]_vars

\* a higher-priority thread, made ready by the preemption handler, runs in
\* place of the thread that raised the interrupt
C2_Witness ==
    /\ last.op = "cause_interrupt"
    /\ last.ret = "void"
    /\ svc_number = 255
    /\ npre > 0
    /\ isr = "thread"
    /\ current # last.by
    /\ current \in ThreadIds
    /\ thr[current].prio < thr[last.by].prio
    /\ thr[last.by].stat = "ready"

\* C3: a trigger that raises trap 254 is served by one call of
\* tm_interrupt_handler and none of tm_interrupt_preemption_handler, and the
\* thread running after it is the thread that issued it, with every thread's
\* state as it was.
C3_PlainInterrupt ==
    /\ []((variant = "part_000" /\ last.op = "cause_interrupt"
             /\ last.ret = NoReturn /\ trap_flag = 254)
            => (isr = "svc" /\ svc_number = 254 /\ current = last.by))
    /\ [][(isr = "svc" /\ svc_number = 254) =>
            /\ isr' = "thread"
            /\ nirq' = nirq + 1
            /\ npre' = npre
            /\ current' = current
            /\ current' = last'.by
            /\ UNCHANGED <<thr, rdy, pend>>]_vars

\* the plain handler has run once and the issuing thread, a thread of the
\* table, runs again while a thread of higher priority stays suspended
C3_Witness ==
    /\ last.op = "cause_interrupt"
    /\ last.ret = "void"
    /\ svc_number = 254
    /\ nirq = 1
    /\ npre = 0
    /\ isr = "thread"
    /\ current = last.by
    /\ current \in ThreadIds
    /\ \E id \in ThreadIds :
          thr[id].stat = "suspend" /\ thr[id].prio < thr[current].prio

\* C4: with a selector other than 254 and 255 the trigger raises no trap and
\* calls neither handler, the dispatcher calls no handler for any such trap
\* number, and the state of the threads, semaphores, queues and pools is
\* unchanged. (The second porting layer has no selector and is not covered.)
C4_OtherSelectorsIgnored ==
    /\ [](\A n \in 0..255 : n \notin {254, 255} => Dispatch(n) = "none")
    /\ [][(variant = "part_000" /\ CanCall /\ last' # last
              /\ last'.op = "cause_interrupt" /\ last'.id \notin {254, 255}) =>
            /\ last'.ret = "void"
            /\ isr' = "thread"
            /\ fault' = "none"
            /\ UNCHANGED <<nirq, npre, svc_number, thread_vars, sems,
                           queue_vars, pool_vars>>]_vars

\* a trigger with selector 511 has returned with threads in the table
C4_Witness ==
    /\ variant = "part_000"
    /\ last.op = "cause_interrupt"
    /\ last.id = 511
    /\ last.ret = "void"
    /\ trap_flag = 511
    /\ isr = "thread"
    /\ \E id \in ThreadIds : thr[id].stat = "suspend"

\* the blocks of pool p the harness holds
Outstanding(p) == {ptr \in held : ptr[1] = p}

\* C5: on a created queue a send fails only when the queue already holds 8
\* messages (so the first 8 sends without a receive succeed), and a failed
\* send has not blocked the caller.
C5_EightSendsSucceed ==
    (last.op = "queue_send" /\ queues[last.id].init /\ last.ret # TM_SUCCESS)
        => (/\ last.ret = TM_ERROR
            /\ Len(queues[last.id].msgs) = QueueSlots
            /\ current = last.by)

\* C6: on a created pool an allocate fails only when 8 blocks of the pool are
\* outstanding, and at most 8 are.
C6_EightBlocksAllocate ==
    /\ \A p \in PoolIds : Cardinality(Outstanding(p)) <= SlabBlocks
    /\ (last.op = "memory_pool_allocate" /\ pools[last.id].init
           /\ last.ret # TM_SUCCESS)
          => (last.ret = TM_ERROR
                 /\ Cardinality(Outstanding(last.id)) = SlabBlocks)

\* a new call of tm_semaphore_get(s) by the running thread
GetCall(s) ==
    /\ CanCall
    /\ last' # last
    /\ last'.op = "semaphore_get"
    /\ last'.id = s

C8_BinaryCount ==
    \A s \in SemIds : sems[s].obj # "RT_NULL" => sems[s].value \in {0, 1}

\* C9: tm_thread_create with an id outside 0..9 or a priority outside [1,31]
\* returns TM_ERROR, starts no thread and writes nothing.
C9_CreateRejectsBadArguments ==
    /\ \A id \in ThreadIds :
          thr[id].stat # "none" => ValidPriority(thr[id].prio)
    /\ (last.op = "thread_create" /\ last.id \notin 0..(TM_TEST_NUM_THREADS - 1))
          => (last.ret = TM_ERROR /\ fault = "none")

\* a new call of tm_queue_receive(q) by the running thread
ReceiveCall(q) ==
    /\ CanCall
    /\ last'.op = "queue_receive"
    /\ last'.id = q
    /\ <<last, queues, msg_out>>' # <<last, queues, msg_out>>

\* C10: a successful send to an empty queue followed at once by a receive on
\* it: the receive returns TM_SUCCESS, the envelope received is the envelope
\* sent, and the queue is empty again.
C10_RoundTrip ==
    [][\A q \in QueueIds :
          (last.op = "queue_send" /\ last.id = q /\ last.ret = TM_SUCCESS
              /\ Len(queues[q].msgs) = 1 /\ ReceiveCall(q))
          => (/\ last'.ret = TM_SUCCESS
              /\ msg_out' = msg_in
              /\ queues'[q].msgs = <<>>)]_vars

ThreadCall(op, id) ==
    /\ CanCall
    /\ <<last, thr>>' # <<last, thr>>
    /\ last'.op = op
    /\ last'.id = id

\* C13: tm_thread_suspend on a created thread that is suspended already, and
\* tm_thread_resume on a created thread that is ready or running, return
\* TM_ERROR and leave the thread, the ready list and the running thread as
\* they were.
C13_NotIdempotent ==
    [][\A id \in ThreadIds :
          /\ (ThreadCall("thread_suspend", id) /\ test_thread[id] = "obj"
                  /\ thr[id].stat = "suspend")
              => (/\ last'.ret = TM_ERROR
                  /\ thr'[id].stat = "suspend"
                  /\ UNCHANGED <<rdy, current, test_thread>>)
          /\ (ThreadCall("thread_resume", id) /\ test_thread[id] = "obj"
                  /\ thr[id].stat \in {"ready", "running"})
              => (/\ last'.ret = TM_ERROR
                  /\ thr'[id].stat = thr[id].stat
                  /\ UNCHANGED <<rdy, current, test_thread>>)]_vars

\* a suspend of a thread that was suspended already has returned TM_ERROR,
\* while the other thread of the table is ready or running
C13_Witness ==
    /\ last.op = "thread_suspend"
    /\ last.ret = TM_ERROR
    /\ last.id \in ThreadIds
    /\ test_thread[last.id] = "obj"
    /\ thr[last.id].stat = "suspend"
    /\ fault = "none"
    /\ \E id \in ThreadIds : thr[id].stat \in {"ready", "running"}

\* C14: on a created thread, tm_thread_resume of a suspended thread returns
\* TM_SUCCESS and makes it ready or running, and tm_thread_suspend of a ready
\* or running thread returns TM_SUCCESS (when the caller suspends itself,
\* once it runs again) and leaves it suspended: every resume / suspend cycle
\* after a create succeeds.
C14_ResumeSuspendCycles ==
    /\ [][\A id \in ThreadIds :
            /\ (ThreadCall("thread_resume", id) /\ test_thread[id] = "obj"
                    /\ thr[id].stat = "suspend")
                => (/\ last'.ret = TM_SUCCESS
                    /\ thr'[id].stat \in {"ready", "running"})
            /\ (ThreadCall("thread_suspend", id) /\ test_thread[id] = "obj"
                    /\ thr[id].stat \in {"ready", "running"})
                => (/\ last'.ret \in {TM_SUCCESS, NoReturn}
                    /\ last'.ret = NoReturn => (id = current /\ current' # id)
                    /\ thr'[id].stat = "suspend")]_vars
    /\ [][(fault = "none" /\ isr = "thread" /\ pend[current].k = "suspend"
              /\ last' # last)
            => (last'.op = "thread_suspend" /\ last'.ret = TM_SUCCESS)]_vars

\* a thread that was resumed, ran and suspended itself has been resumed again
\* with TM_SUCCESS and runs
C14_Witness ==
    \E id \in ThreadIds :
        /\ last.op = "thread_resume"
        /\ last.id = id
        /\ last.ret = TM_SUCCESS
        /\ last.by # id
        /\ pend[id].k = "suspend"
        /\ thr[id].resumed
        /\ thr[id].ran
        /\ thr[id].stat = "running"
        /\ current = id

\* C15: tm_thread_resume and tm_thread_suspend on a slot that holds no live
\* thread (never created, or destroyed by tm_thread_detach) return TM_ERROR,
\* run into no undefined behaviour and change no thread's state.
C15_WrongStateSlot ==
    [][\A id \in ThreadIds :
          ((ThreadCall("thread_resume", id) \/ ThreadCall("thread_suspend", id))
              /\ test_thread[id] # "obj")
          => (/\ last'.ret = TM_ERROR
              /\ fault' = "none"
              /\ \A h \in Handles : thr'[h].stat = thr[h].stat
              /\ UNCHANGED <<rdy, current, test_thread>>)]_vars

\* C17: tm_thread_detach destroys the thread of every created slot, leaves
\* every other slot alone and reads through no empty handle, whichever slots
\* were created.
C17_DetachSkipsEmptySlots ==
    [][(CanCall /\ last' # last /\ last'.op = "thread_detach")
        => (/\ fault' = "none"
            /\ last'.ret = "void"
            /\ \A id \in ThreadIds :
                  /\ test_thread[id] = "obj" => thr'[id].stat = "close"
                  /\ test_thread[id] # "obj" => thr'[id] = thr[id])]_vars

\* C16: tm_semaphore_put on a created semaphore returns TM_SUCCESS in every
\* reachable state, whatever the semaphore's value and however many puts
\* came before.
C16_PutAlwaysSucceeds ==
    (last.op = "semaphore_put" /\ sems[last.id].obj # "RT_NULL")
        => (last.ret = TM_SUCCESS /\ fault = "none")

\* C18: a running thread that calls tm_thread_suspend on its own id is
\* switched out before the call returns, and the call returns to it only
\* once it has been resumed and runs again.
C18_SelfSuspendYields ==
    /\ [][\A id \in ThreadIds :
            (ThreadCall("thread_suspend", id) /\ id = current
                /\ test_thread[id] = "obj" /\ thr[id].stat = "running")
            => (/\ last'.ret = NoReturn
                /\ current' # id
                /\ thr'[id].stat = "suspend"
                /\ pend'[id].k = "suspend")]_vars
    /\ [][(fault = "none" /\ isr = "thread" /\ pend[current].k = "suspend"
              /\ last' # last)
            => (thr[current].stat = "running" /\ thr[current].resumed)]_vars

AllocateCall(p) ==
    /\ CanCall
    /\ last'.op = "memory_pool_allocate"
    /\ last'.id = p
    /\ <<last, held, ptr_out>>' # <<last, held, ptr_out>>

====
